---- MODULE Spec2Model ----
(***************************************************************************)
(* Smart traffic light: the lane controllers of esp32_lane3.ino (one       *)
(* instance per lane, LANE_ID = 1..4) and of esp1_lane1.cpp, coordinating  *)
(* over an MQTT broker.  A controller is single threaded: it handles at    *)
(* most one inbound packet per call of mqtt_client.loop(), and it calls    *)
(* mqtt_client.loop() at the top of loop(), in every iteration of the      *)
(* permission wait and in every second of the green countdown.             *)
(***************************************************************************)
EXTENDS Integers, Sequences, FiniteSets

\* ------------------------------------------------------------------ bounds

\* Largest vehicle count the detector reports in the protocol runs.
MaxCount == 1
\* Capacity of a controller's inbound packet queue in the network runs.
MaxInbox == 2
\* Wall clock of the runs (the clock is frozen within a run): day 1,
\* 12:30:30.
ClockDay == 1
ClockHour == 12
ClockMinute == 30
ClockSecond == 30
\* Packets the bus may lose, and reset commands the operator may send, in a
\* network run.
MaxLost == 1
MaxResets == 1
\* Green phases of a run with resets.
MaxGreens == 3
\* The detector reports vehicles on lanes 1..MaxBusyLane only.
MaxBusyLane == 1
\* Largest vehicle count the duration calculation is run on.
MaxVehicles == 55

\* --------------------------------------------------------- program constants

NumLanes == 4
LANE_ID == 3
StaleMinutes == 2
MinutesPerDay == 1440
NoTimestamp == -1

Lanes == 1..NumLanes
Counts == 0..MaxCount

\* A successor function that skips a lane: 1->3->1, 2->4->2.
skipNextSection(current) == ((current + 1) % NumLanes) + 1

\* Circular queue for traffic light ordering: 1->2->3->4->1.
getNextSection(current) == (current % NumLanes) + 1

\* ------------------------------------------------------- fuzzy duration
\* Membership degrees in tenths (x is an integer count; every breakpoint
\* quotient (5-x)/2, (x-3)/2, (10-x)/5, (x-5)/5 is a whole number of tenths).

sedikit(x) ==
    IF x <= 3 THEN 10
    ELSE IF x > 3 /\ x < 5 THEN ((5 - x) * 10) \div 2
    ELSE 0

sedang(x) ==
    IF x <= 3 \/ x >= 10 THEN 0
    ELSE IF x > 3 /\ x <= 5 THEN ((x - 3) * 10) \div 2
    ELSE IF x > 5 /\ x < 10 THEN ((10 - x) * 10) \div 5
    ELSE 0

padat(x) ==
    IF x <= 5 THEN 0
    ELSE IF x > 5 /\ x < 10 THEN ((x - 5) * 10) \div 5
    ELSE 10

\* Rush hours 7..9 and 17..19.
isJamSibuk(jam) == (jam >= 7 /\ jam <= 9) \/ (jam >= 17 /\ jam <= 19)

\* The centroid with the durations of the normal hours for either flag.
defuzzifyIgnoringRushHour(kendaraan, jamSibuk) ==
    LET mu_sedikit == sedikit(kendaraan)
        mu_sedang == sedang(kendaraan)
        mu_padat == padat(kendaraan)
        numerator == (mu_sedikit * 10) + (mu_sedang * 20) + (mu_padat * 40)
        denominator == mu_sedikit + mu_sedang + mu_padat
    IN  IF denominator = 0 THEN 200 ELSE (numerator * 10) \div denominator

\* The centroid with the base durations of the simulator (15, 30, 50 and
\* 35, 55, 90).
defuzzifyWithSimulatorDurations(kendaraan, jamSibuk) ==
    LET mu_sedikit == sedikit(kendaraan)
        mu_sedang == sedang(kendaraan)
        mu_padat == padat(kendaraan)
        durasi_pendek == IF jamSibuk THEN 35 ELSE 15
        durasi_sedang == IF jamSibuk THEN 55 ELSE 30
        durasi_lama == IF jamSibuk THEN 90 ELSE 50
        numerator == (mu_sedikit * durasi_pendek) + (mu_sedang * durasi_sedang)
                     + (mu_padat * durasi_lama)
        denominator == mu_sedikit + mu_sedang + mu_padat
    IN  IF denominator = 0
        THEN (IF jamSibuk THEN 300 ELSE 200)
        ELSE (numerator * 10) \div denominator

\* The centroid with the short and the long duration exchanged.
defuzzifyWithDurationsExchanged(kendaraan, jamSibuk) ==
    LET mu_sedikit == sedikit(kendaraan)
        mu_sedang == sedang(kendaraan)
        mu_padat == padat(kendaraan)
        durasi_pendek == IF jamSibuk THEN 60 ELSE 40
        durasi_sedang == IF jamSibuk THEN 30 ELSE 20
        durasi_lama == IF jamSibuk THEN 15 ELSE 10
        numerator == (mu_sedikit * durasi_pendek) + (mu_sedang * durasi_sedang)
                     + (mu_padat * durasi_lama)
        denominator == mu_sedikit + mu_sedang + mu_padat
    IN  IF denominator = 0
        THEN (IF jamSibuk THEN 300 ELSE 200)
        ELSE (numerator * 10) \div denominator

\* Weighted centroid, in tenths of a second.
defuzzify(kendaraan, jamSibuk) ==
    LET mu_sedikit == sedikit(kendaraan)
        mu_sedang == sedang(kendaraan)
        mu_padat == padat(kendaraan)
        durasi_pendek == IF jamSibuk THEN 15 ELSE 10
        durasi_sedang == IF jamSibuk THEN 30 ELSE 20
        durasi_lama == IF jamSibuk THEN 60 ELSE 40
        numerator == (mu_sedikit * durasi_pendek) + (mu_sedang * durasi_sedang)
                     + (mu_padat * durasi_lama)
        denominator == mu_sedikit + mu_sedang + mu_padat
    IN  IF denominator = 0
        THEN (IF jamSibuk THEN 300 ELSE 200)
        ELSE (numerator * 10) \div denominator

\* The cast (int)duration of countdownTimer((int)duration).
IntCast(tenths) == tenths \div 10

\* The membership functions and the rush-hour predicate of esp1_lane1.cpp
\* (degrees in tenths).
Lane1_sedikit(x) ==
    IF x <= 3 THEN 10
    ELSE IF x > 3 /\ x < 5 THEN ((5 - x) * 10) \div 2
    ELSE 0

Lane1_sedang(x) ==
    IF x <= 3 \/ x >= 10 THEN 0
    ELSE IF x > 3 /\ x <= 5 THEN ((x - 3) * 10) \div 2
    ELSE IF x > 5 /\ x < 10 THEN ((10 - x) * 10) \div 5
    ELSE 0

Lane1_padat(x) ==
    IF x <= 5 THEN 0
    ELSE IF x > 5 /\ x < 10 THEN ((x - 5) * 10) \div 5
    ELSE 10

Lane1_isJamSibuk(jam) == (jam >= 7 /\ jam <= 9) \/ (jam >= 17 /\ jam <= 19)

\* The membership functions of the standalone simulator, degrees in
\* twentieths (every quotient (30-x)/20, (x-10)/20, (50-x)/20, (x-30)/20 of
\* an integer count is a whole number of twentieths).
Sim_sedikit(x) ==
    IF x <= 10 THEN 20
    ELSE IF x > 10 /\ x <= 30 THEN 30 - x
    ELSE 0

\* A medium category whose rising ramp leaves out its end point 30.
Sim_sedangOpenRamp(x) ==
    IF x <= 10 \/ x >= 50 THEN 0
    ELSE IF x > 10 /\ x < 30 THEN x - 10
    ELSE IF x > 30 /\ x < 50 THEN 50 - x
    ELSE 0

Sim_sedang(x) ==
    IF x <= 10 \/ x >= 50 THEN 0
    ELSE IF x > 10 /\ x <= 30 THEN x - 10
    ELSE IF x > 30 /\ x < 50 THEN 50 - x
    ELSE 0

Sim_padat(x) ==
    IF x <= 30 THEN 0
    ELSE IF x > 30 /\ x <= 50 THEN x - 30
    ELSE 20

\* Busy hours of the simulator: 7..9 and 16..19.
Sim_isJamSibuk(jam) == (jam >= 7 /\ jam <= 9) \/ (jam >= 16 /\ jam <= 19)

\* The simulator's centroid times its time factor (1.4 or 0.8), in
\* hundredths of a second.
Sim_defuzzify(kendaraan, jamSibuk) ==
    LET mu_sedikit == Sim_sedikit(kendaraan)
        mu_sedang == Sim_sedang(kendaraan)
        mu_banyak == Sim_padat(kendaraan)
        timeFactor == IF jamSibuk THEN 14 ELSE 8
        durasi_sedikit == IF jamSibuk THEN 35 ELSE 15
        durasi_sedang == IF jamSibuk THEN 55 ELSE 30
        durasi_padat == IF jamSibuk THEN 90 ELSE 50
        numerator == (mu_sedikit * durasi_sedikit) + (mu_sedang * durasi_sedang)
                     + (mu_banyak * durasi_padat)
        denominator == mu_sedikit + mu_sedang + mu_banyak
    IN  IF denominator = 0
        THEN (IF jamSibuk THEN 5500 ELSE 2500)
        ELSE (numerator * timeFactor * 10) \div denominator

\* A timestamp "YYYY-MM-DD HH:MM:SS", as the seconds since the start of day 0.
Stamp(day, hour, minute, second) ==
    ((day * 24 + hour) * 60 + minute) * 60 + second

\* substring(11, 13).toInt() and substring(14, 16).toInt() of a timestamp.
HourOf(ts) == (ts \div 3600) % 24
MinuteOf(ts) == (ts \div 60) % 60

getCurrentTimestamp == Stamp(ClockDay, ClockHour, ClockMinute, ClockSecond)

\* ------------------------------------------------------------- messages

VehicleCountMsg(lane, total, ts) ==
    [topic |-> "vehicle_count", road_section_id |-> lane, total_vehicles |-> total,
     timestamp |-> ts]
\* A vehicle-count payload with neither total_vehicles nor vehicle_counts.
MissingTotalMsg(lane, ts) ==
    [topic |-> "vehicle_count", road_section_id |-> lane, timestamp |-> ts]
\* A vehicle-count payload with the per-class object vehicle_counts instead of
\* total_vehicles.
CountsByClassMsg(lane, counts, ts) ==
    [topic |-> "vehicle_count", road_section_id |-> lane, vehicle_counts |-> counts,
     timestamp |-> ts]
\* A vehicle-count payload that deserializeJson rejects.
UnparsableMsg == [topic |-> "vehicle_count", error |-> TRUE]
GreenStatusMsg(lane, status) ==
    [topic |-> "green_status", section |-> lane, status |-> status]
GreenRequestMsg(lane) ==
    [topic |-> "green_request", section |-> lane]
GreenPermissionMsg(lane, from) ==
    [topic |-> "green_permission", section |-> lane, permission |-> "granted",
     from_section |-> from]
ResetMsg(payload) ==
    [topic |-> "reset", payload |-> payload]
NextLaneReadyMsg(next, from) ==
    [topic |-> "next_lane_ready", next_expected_section |-> next, from_lane |-> from]
DurationMsg(lane, total, duration, ts) ==
    [topic |-> "duration", road_section_id |-> lane, total_vehicles |-> total,
     duration |-> duration, timestamp |-> ts]
\* No packet available in this call of mqtt_client.loop().
NoMsg == [topic |-> "none"]

\* ------------------------------------------------------ controller state

MqttDataInit ==
    [road_section_id |-> 0, total_vehicles |-> 0, timestamp |-> NoTimestamp,
     new_data |-> FALSE, duration_published |-> FALSE, green_request_sent |-> FALSE]

RedLight == [red |-> TRUE, yellow |-> FALSE, green |-> FALSE]
YellowLight == [red |-> FALSE, yellow |-> TRUE, green |-> FALSE]
GreenLight == [red |-> FALSE, yellow |-> FALSE, green |-> TRUE]

\* A lamp driver that switches lamps on and never off.
setTrafficLightWithoutSwitchingOff(s, red, yellow, green) ==
    [s EXCEPT !.light = [red |-> s.light.red \/ red,
                         yellow |-> s.light.yellow \/ yellow,
                         green |-> s.light.green \/ green]]

\* setTrafficLight(red, yellow, green)
setTrafficLight(s, red, yellow, green) ==
    [s EXCEPT !.light = [red |-> red, yellow |-> yellow, green |-> green]]

allRed(s) == setTrafficLight(s, TRUE, FALSE, FALSE)

\* The globals after setup(); pc is the controller's position in loop(),
\* duration the local of loop(), i the loop variable of countdownTimer.
EspInit ==
    [vehicleCount |-> 0,
     lastReceivedData |-> MqttDataInit,
     currentGreenSection |-> 0,
     greenLightRequested |-> FALSE,
     waitingForGreenPermission |-> FALSE,
     nextExpectedSection |-> 1,
     light |-> RedLight,
     pc |-> "loop",
     duration |-> 0,
     i |-> 0]

\* resetAllData with the turn pointer left as it was.
resetAllDataKeepingTurn(s) ==
    allRed([s EXCEPT !.vehicleCount = 0,
                     !.lastReceivedData = MqttDataInit,
                     !.currentGreenSection = 0,
                     !.greenLightRequested = FALSE,
                     !.waitingForGreenPermission = FALSE])

resetAllData(s) ==
    allRed([s EXCEPT !.vehicleCount = 0,
                     !.lastReceivedData = MqttDataInit,
                     !.currentGreenSection = 0,
                     !.greenLightRequested = FALSE,
                     !.waitingForGreenPermission = FALSE,
                     !.nextExpectedSection = 1])

ClearDataFlags(s) ==
    [s EXCEPT !.lastReceivedData.new_data = FALSE,
              !.lastReceivedData.duration_published = FALSE,
              !.lastReceivedData.green_request_sent = FALSE]

\* A handler's result: the controller afterwards, what it published, and
\* whether it set data_received_time to millis().
Result(s, out, stamped) == [esp |-> s, out |-> out, stamped |-> stamped]

\* ---------------------------------------------------------- mqtt_callback

\* Minutes between the message's timestamp and now, as the handler computes
\* them from hour and minute alone (a negative difference wraps by one day).
timeDiffMinutes(msgTimestamp, currentTimestamp) ==
    LET msgHour == HourOf(msgTimestamp)
        msgMin == MinuteOf(msgTimestamp)
        currentHour == HourOf(currentTimestamp)
        currentMin == MinuteOf(currentTimestamp)
        d == (currentHour * 60 + currentMin) - (msgHour * 60 + msgMin)
    IN  IF d < 0 THEN d + MinutesPerDay ELSE d

RECURSIVE SumOf(_)
SumOf(counts) == IF counts = <<>> THEN 0 ELSE Head(counts) + SumOf(Tail(counts))

\* total_vehicles of a parsed payload: the key if present, else the sum of
\* vehicle_counts if present, else the initial 0.
TotalVehicles(m) ==
    IF "total_vehicles" \in DOMAIN m THEN m.total_vehicles
    ELSE IF "vehicle_counts" \in DOMAIN m THEN SumOf(m.vehicle_counts)
    ELSE 0

\* topic traffic/vehicle_count (a payload without the timestamp key carries
\* NoTimestamp)
OnVehicleCount(s, m, id) ==
    IF "error" \in DOMAIN m THEN Result(s, <<>>, FALSE)
    ELSE
    LET d == s.lastReceivedData
        total_vehicles == TotalVehicles(m)
        isDuplicateData ==
            /\ d.total_vehicles = total_vehicles
            /\ d.road_section_id = m.road_section_id
            /\ d.timestamp = m.timestamp
            /\ d.new_data
    IN  IF m.road_section_id # id THEN Result(s, <<>>, FALSE)
        ELSE IF /\ m.timestamp # NoTimestamp
                /\ timeDiffMinutes(m.timestamp, getCurrentTimestamp) > StaleMinutes
             THEN Result(s, <<>>, FALSE)
        ELSE IF isDuplicateData THEN Result(s, <<>>, FALSE)
        ELSE Result(
               [s EXCEPT !.vehicleCount = total_vehicles,
                         !.lastReceivedData =
                            [road_section_id |-> m.road_section_id,
                             total_vehicles |-> total_vehicles,
                             timestamp |-> IF m.timestamp # NoTimestamp
                                           THEN m.timestamp
                                           ELSE getCurrentTimestamp,
                             new_data |-> TRUE,
                             duration_published |-> FALSE,
                             green_request_sent |-> FALSE]],
               <<>>, TRUE)

\* A green_status handler that on every red status moves the expected lane
\* one step on.
OnGreenStatusCounting(s, m, id) ==
    IF m.status = "green"
    THEN Result([s EXCEPT !.currentGreenSection = m.section], <<>>, FALSE)
    ELSE IF m.status = "red"
    THEN Result([s EXCEPT !.currentGreenSection = 0,
                          !.nextExpectedSection =
                              getNextSection(s.nextExpectedSection)],
                <<>>, FALSE)
    ELSE Result(s, <<>>, FALSE)

\* A green_status handler that on a red status expects the lane after the
\* next one.
OnGreenStatusSkipping(s, m, id) ==
    IF m.status = "green"
    THEN Result([s EXCEPT !.currentGreenSection = m.section], <<>>, FALSE)
    ELSE IF m.status = "red" /\ s.currentGreenSection = m.section
    THEN Result([s EXCEPT !.currentGreenSection = 0,
                          !.nextExpectedSection =
                              getNextSection(getNextSection(m.section))],
                <<>>, FALSE)
    ELSE Result(s, <<>>, FALSE)

\* topic traffic/green_status
OnGreenStatus(s, m, id) ==
    IF m.status = "green"
    THEN Result([s EXCEPT !.currentGreenSection = m.section], <<>>, FALSE)
    ELSE IF m.status = "red" /\ s.currentGreenSection = m.section
    THEN Result([s EXCEPT !.currentGreenSection = 0,
                          !.nextExpectedSection = getNextSection(m.section)],
                <<>>, FALSE)
    ELSE Result(s, <<>>, FALSE)

\* The grant decision without the check of the node's own pending data.
ShouldGrantIgnoringOwnData(s, requesting_section, id) ==
    /\ s.currentGreenSection = 0
    /\ requesting_section = s.nextExpectedSection

\* The grant decision of the green_request handler.
ShouldGrant(s, requesting_section, id) ==
    /\ s.currentGreenSection = 0
    /\ requesting_section = s.nextExpectedSection
    /\ ~(/\ s.lastReceivedData.new_data
         /\ s.vehicleCount > 0
         /\ id = s.nextExpectedSection)

\* topic traffic/green_request
OnGreenRequest(s, m, id) ==
    IF ShouldGrant(s, m.section, id)
    THEN Result(s, <<GreenPermissionMsg(m.section, id)>>, FALSE)
    ELSE Result(s, <<>>, FALSE)

\* A green_permission handler that takes a grant for any lane as its own.
OnGreenPermissionForAnyLane(s, m, id) ==
    IF m.permission = "granted"
    THEN Result([s EXCEPT !.waitingForGreenPermission = FALSE], <<>>, FALSE)
    ELSE Result(s, <<>>, FALSE)

\* topic traffic/green_permission
OnGreenPermission(s, m, id) ==
    IF m.section = id /\ m.permission = "granted"
    THEN Result([s EXCEPT !.waitingForGreenPermission = FALSE], <<>>, FALSE)
    ELSE Result(s, <<>>, FALSE)

\* The payloads the reset handler accepts (after trim and toLowerCase).
\* A payload is the sequence of its characters.
\* String::trim: the payload without its leading and trailing white space.
trim(str) ==
    LET kept == {k \in 1..Len(str) :
                    str[k] \notin {" ", "\t", "\n", "\f", "\r"}}
        first == CHOOSE k \in kept : \A j \in kept : k <= j
        last == CHOOSE k \in kept : \A j \in kept : j <= k
    IN  IF kept = {} THEN <<>> ELSE SubSeq(str, first, last)

\* String::toLowerCase: every upper-case letter replaced by its lower-case
\* letter, every other character kept.
toLowerCase(str) ==
    LET low(c) ==
           CASE c = "A" -> "a" [] c = "B" -> "b" [] c = "C" -> "c"
             [] c = "D" -> "d" [] c = "E" -> "e" [] c = "F" -> "f"
             [] c = "G" -> "g" [] c = "H" -> "h" [] c = "I" -> "i"
             [] c = "J" -> "j" [] c = "K" -> "k" [] c = "L" -> "l"
             [] c = "M" -> "m" [] c = "N" -> "n" [] c = "O" -> "o"
             [] c = "P" -> "p" [] c = "Q" -> "q" [] c = "R" -> "r"
             [] c = "S" -> "s" [] c = "T" -> "t" [] c = "U" -> "u"
             [] c = "V" -> "v" [] c = "W" -> "w" [] c = "X" -> "x"
             [] c = "Y" -> "y" [] c = "Z" -> "z"
             [] OTHER -> c
    IN  [k \in 1..Len(str) |-> low(str[k])]

ValidResetCommands ==
    {<<"t", "r", "u", "e">>, <<"1">>, <<"r", "e", "s", "e", "t">>}

\* The reset handler comparing the payload as it arrived.
OnResetWithoutNormalising(s, m, id) ==
    IF m.payload \in ValidResetCommands
    THEN Result(resetAllData(s), <<>>, FALSE)
    ELSE Result(s, <<>>, FALSE)

\* topic traffic/reset
OnReset(s, m, id) ==
    IF toLowerCase(trim(m.payload)) \in ValidResetCommands
    THEN Result(resetAllData(s), <<>>, FALSE)
    ELSE Result(s, <<>>, FALSE)

\* topic traffic/next_lane_ready
OnNextLaneReady(s, m, id) ==
    LET s1 == [s EXCEPT !.nextExpectedSection = m.next_expected_section]
    IN  IF id = s1.nextExpectedSection
        THEN Result([s1 EXCEPT !.lastReceivedData.new_data = TRUE,
                               !.lastReceivedData.duration_published = FALSE,
                               !.lastReceivedData.green_request_sent = FALSE,
                               !.vehicleCount = IF s1.vehicleCount < 0 THEN 0
                                                ELSE s1.vehicleCount],
                    <<>>, TRUE)
        ELSE Result(s1, <<>>, FALSE)

\* One call of mqtt_client.loop(): the callback on packet m, if there is one.
mqtt_callback(s, m, id) ==
    CASE m.topic = "vehicle_count" -> OnVehicleCount(s, m, id)
      [] m.topic = "green_status" -> OnGreenStatus(s, m, id)
      [] m.topic = "green_request" -> OnGreenRequest(s, m, id)
      [] m.topic = "green_permission" -> OnGreenPermission(s, m, id)
      [] m.topic = "reset" -> OnReset(s, m, id)
      [] m.topic = "next_lane_ready" -> OnNextLaneReady(s, m, id)
      [] OTHER -> Result(s, <<>>, FALSE)

\* ------------------------------------------------------------------ loop()
\* The controller's positions: "loop" (top of loop()), "wait" (the permission
\* wait), "prepare" (yellow before green), "green" (countdownTimer), "yellow"
\* (yellow after green).  Packets are handled only where the code calls
\* mqtt_client.loop(): at "loop", in "wait" and in "green".

publish_green_status(id, status) == GreenStatusMsg(id, status)

\* request_green_permission()
request_green_permission(s, id) ==
    Result([s EXCEPT !.greenLightRequested = TRUE,
                     !.waitingForGreenPermission = TRUE],
           <<GreenRequestMsg(id)>>, FALSE)

publish_duration(s, duration) ==
    DurationMsg(s.lastReceivedData.road_section_id,
                s.lastReceivedData.total_vehicles, duration,
                s.lastReceivedData.timestamp)

\* One iteration of loop() up to its first blocking point; r is the result of
\* the mqtt_client.loop() call at its top, dataTimeout whether more than
\* 120000 ms have passed since data_received_time.
LoopBody(r, id, dataTimeout) ==
    LET s0 == r.esp
        s1 == IF dataTimeout /\ ~r.stamped THEN ClearDataFlags(s0) ELSE s0
        duration == defuzzify(s1.vehicleCount, isJamSibuk(ClockHour))
        pub == IF s1.lastReceivedData.duration_published THEN <<>>
               ELSE <<publish_duration(s1, duration)>>
        s2 == [s1 EXCEPT !.lastReceivedData.duration_published = TRUE]
        free == s2.currentGreenSection = 0
        turn == id = s2.nextExpectedSection
        unsent == ~s2.lastReceivedData.green_request_sent
    IN  IF ~s1.lastReceivedData.new_data
        THEN Result(allRed(s1), r.out, FALSE)
        ELSE IF s2.vehicleCount > 0 /\ free /\ turn /\ unsent
        THEN LET q == request_green_permission(
                        [s2 EXCEPT !.currentGreenSection = id,
                                   !.duration = duration], id)
             IN  Result([q.esp EXCEPT !.lastReceivedData.green_request_sent = TRUE,
                                      !.pc = "wait"],
                        r.out \o pub \o q.out, FALSE)
        ELSE IF s2.vehicleCount > 0 /\ ~free
        THEN Result(s2, r.out \o pub, FALSE)
        ELSE IF s2.vehicleCount > 0 /\ ~turn
        THEN Result(s2, r.out \o pub, FALSE)
        ELSE IF s2.vehicleCount = 0 /\ free /\ turn /\ unsent
        THEN Result(setTrafficLight(
                        [s2 EXCEPT !.currentGreenSection = id,
                                   !.duration = duration,
                                   !.lastReceivedData.green_request_sent = TRUE,
                                   !.pc = "prepare"],
                        FALSE, TRUE, FALSE),
                    r.out \o pub, FALSE)
        ELSE Result(ClearDataFlags(s2), r.out \o pub, FALSE)

\* A permission wait that goes on to the lamp sequence without checking the
\* claim.
WaitBodyWithoutClaimCheck(r, id) ==
    IF r.esp.waitingForGreenPermission THEN r
    ELSE Result(setTrafficLight([r.esp EXCEPT !.pc = "prepare"],
                                FALSE, TRUE, FALSE),
                r.out, FALSE)

\* One iteration of the permission wait, after its mqtt_client.loop() call
\* returned r: stay while waitingForGreenPermission, else leave the loop.
WaitBody(r, id) ==
    LET s == r.esp
    IN  IF s.waitingForGreenPermission THEN r
        ELSE IF s.currentGreenSection # id
        THEN Result([s EXCEPT !.pc = "loop", !.duration = 0], r.out, FALSE)
        ELSE Result(setTrafficLight([s EXCEPT !.pc = "prepare"],
                                    FALSE, TRUE, FALSE),
                    r.out, FALSE)

\* The wait ended by the 5000 ms limit with no grant handled.
WaitTimedOut(s) ==
    Result([s EXCEPT !.waitingForGreenPermission = FALSE,
                     !.currentGreenSection = 0,
                     !.pc = "loop", !.duration = 0],
           <<>>, FALSE)

\* Yellow to green with no green status published.
TurnGreenSilently(s, id) ==
    Result(setTrafficLight([s EXCEPT !.pc = "green",
                                     !.i = IntCast(s.duration)],
                           FALSE, FALSE, TRUE),
           <<>>, FALSE)

\* Yellow to green, publish the green status, enter countdownTimer.
TurnGreen(s, id) ==
    Result(setTrafficLight([s EXCEPT !.pc = "green",
                                     !.i = IntCast(s.duration)],
                           FALSE, FALSE, TRUE),
           <<publish_green_status(id, "green")>>, FALSE)

\* One second of countdownTimer, after its mqtt_client.loop() call returned r.
CountdownBody(r) ==
    Result([r.esp EXCEPT !.i = r.esp.i - 1], r.out, FALSE)

\* Green to yellow: advance the turn and announce it.
EnterYellow(s, id) ==
    LET nextLaneInSequence == getNextSection(id)
    IN  Result(setTrafficLight(
                   [s EXCEPT !.nextExpectedSection = nextLaneInSequence,
                             !.pc = "yellow"],
                   FALSE, TRUE, FALSE),
               <<NextLaneReadyMsg(nextLaneInSequence, id)>>, FALSE)

\* Yellow to red with no red status published.
EndCycleWithoutStatus(s, id) ==
    Result(ClearDataFlags(
               setTrafficLight([s EXCEPT !.currentGreenSection = 0,
                                         !.pc = "loop", !.duration = 0],
                               TRUE, FALSE, FALSE)),
           <<>>, FALSE)

\* Yellow to red: publish the red status, release the claim, consume the data.
EndCycle(s, id) ==
    Result(ClearDataFlags(
               setTrafficLight([s EXCEPT !.currentGreenSection = 0,
                                         !.pc = "loop", !.duration = 0],
                               TRUE, FALSE, FALSE)),
           <<publish_green_status(id, "red")>>, FALSE)

\* ---------------------------------------------------------- esp1_lane1.cpp
\* The older controller of lane 1: no turn pointer, no reset and no
\* next_lane_ready handler, a lamp sequence through all-off states.

LANE1_ID == 1

\* The timestamp the lane 1 controller writes when a packet carries none,
\* "2025-04-22 10:58:50" (a day before the runs).
Lane1DefaultTimestamp == Stamp(0, 10, 58, 50)

Lane1Init ==
    [vehicleCount |-> 0,
     lastReceivedData |-> [road_section_id |-> 0, total_vehicles |-> 0,
                           timestamp |-> NoTimestamp, new_data |-> FALSE],
     currentGreenSection |-> 0,
     greenLightRequested |-> FALSE,
     waitingForGreenPermission |-> FALSE,
     light |-> RedLight,
     pc |-> "loop",
     duration |-> 0,
     i |-> 0]

Lane1OnVehicleCount(s, m) ==
    IF m.road_section_id # LANE1_ID THEN Result(s, <<>>, FALSE)
    ELSE Result([s EXCEPT !.vehicleCount = m.total_vehicles,
                          !.lastReceivedData =
                             [road_section_id |-> m.road_section_id,
                              total_vehicles |-> m.total_vehicles,
                              timestamp |-> IF m.timestamp # NoTimestamp
                                            THEN m.timestamp
                                            ELSE Lane1DefaultTimestamp,
                              new_data |-> TRUE]],
                <<>>, FALSE)

Lane1OnGreenStatus(s, m) ==
    IF m.status = "green"
    THEN Result([s EXCEPT !.currentGreenSection = m.section], <<>>, FALSE)
    ELSE IF m.status = "red" /\ s.currentGreenSection = m.section
    THEN Result([s EXCEPT !.currentGreenSection = 0], <<>>, FALSE)
    ELSE Result(s, <<>>, FALSE)

Lane1OnGreenRequest(s, m) ==
    IF s.currentGreenSection = 0
    THEN Result(s, <<GreenPermissionMsg(m.section, LANE1_ID)>>, FALSE)
    ELSE Result(s, <<>>, FALSE)

Lane1OnGreenPermission(s, m) ==
    IF m.section = LANE1_ID /\ m.permission = "granted"
    THEN Result([s EXCEPT !.waitingForGreenPermission = FALSE], <<>>, FALSE)
    ELSE Result(s, <<>>, FALSE)

Lane1Callback(s, m) ==
    CASE m.topic = "vehicle_count" -> Lane1OnVehicleCount(s, m)
      [] m.topic = "green_status" -> Lane1OnGreenStatus(s, m)
      [] m.topic = "green_request" -> Lane1OnGreenRequest(s, m)
      [] m.topic = "green_permission" -> Lane1OnGreenPermission(s, m)
      [] OTHER -> Result(s, <<>>, FALSE)

\* From the computed duration to the first all-off lamp state: the claim and
\* the green status come before the lamp sequence.
Lane1StartCycle(s, out) ==
    Result(setTrafficLight(
               [s EXCEPT !.duration = defuzzify(s.vehicleCount, isJamSibuk(ClockHour)),
                         !.currentGreenSection = LANE1_ID,
                         !.pc = "off1"],
               FALSE, FALSE, FALSE),
           out \o <<GreenStatusMsg(LANE1_ID, "green")>>, FALSE)

Lane1LoopBody(r) ==
    LET s == r.esp
    IN  IF s.lastReceivedData.new_data /\ s.vehicleCount > 0
        THEN IF s.currentGreenSection = 0
             THEN Result([s EXCEPT !.greenLightRequested = TRUE,
                                   !.waitingForGreenPermission = TRUE,
                                   !.pc = "wait"],
                         r.out \o <<GreenRequestMsg(LANE1_ID)>>, FALSE)
             ELSE IF s.currentGreenSection = LANE1_ID
             THEN Lane1StartCycle(s, r.out)
             ELSE r
        ELSE Result(allRed(s), r.out, FALSE)

Lane1WaitBody(r) ==
    IF r.esp.waitingForGreenPermission THEN r
    ELSE Lane1StartCycle(r.esp, r.out)

Lane1WaitTimedOut(s) ==
    Result([s EXCEPT !.waitingForGreenPermission = FALSE, !.pc = "loop"],
           <<>>, FALSE)

\* The lamp steps between the delays of the sequence.
Lane1Lamp(s) ==
    CASE s.pc = "off1" -> setTrafficLight([s EXCEPT !.pc = "yellow"], FALSE, TRUE, FALSE)
      [] s.pc = "yellow" -> setTrafficLight([s EXCEPT !.pc = "off2"], FALSE, FALSE, FALSE)
      [] s.pc = "off2" -> setTrafficLight([s EXCEPT !.pc = "green",
                                                   !.i = IntCast(s.duration)],
                                          FALSE, FALSE, TRUE)
      [] s.pc = "green" -> setTrafficLight([s EXCEPT !.pc = "off3"], FALSE, FALSE, FALSE)
      [] OTHER -> s

\* Off to red, the red status, the release, and publish_duration.
Lane1EndCycle(s) ==
    LET s1 == setTrafficLight([s EXCEPT !.currentGreenSection = 0,
                                        !.pc = "loop", !.duration = 0],
                              TRUE, FALSE, FALSE)
    IN  IF s1.lastReceivedData.new_data
        THEN Result([s1 EXCEPT !.lastReceivedData.new_data = FALSE],
                    <<GreenStatusMsg(LANE1_ID, "red"),
                      DurationMsg(s.lastReceivedData.road_section_id,
                                  s.lastReceivedData.total_vehicles, s.duration,
                                  s.lastReceivedData.timestamp)>>, FALSE)
        ELSE Result(s1, <<GreenStatusMsg(LANE1_ID, "red")>>, FALSE)

\* ------------------------------------------------------------------ state

VARIABLES
    esp,        \* esp[l]: the controller of lane l
    inbox,      \* inbox[l]: packets delivered to lane l and not yet handled
    lost,       \* packets the bus has lost so far
    resets,     \* reset commands the operator has sent so far
    lastGreen,  \* the lane that turned green last (0: none yet)
    greens,     \* lamps turned green so far, counted up to MaxGreens
    rx,         \* the packet the last step of the observed controller handled
    tx,         \* the packets the last step of the observed controller published
    hist,       \* history of the observed controller (see HistInit)
    lane1,      \* the controller of esp1_lane1.cpp
    turn,       \* the lane whose turn it is, by the packets lane1 has handled
    calc        \* a run of the duration calculation (see CalcInit)

\* No calculation is running.
CalcIdle == [pc |-> "idle"]

netVars == <<inbox, lost, resets, lastGreen, greens>>
obsVars == <<rx, tx, hist>>
peerVars == <<lane1, turn>>
vars ==
    <<esp, inbox, lost, resets, lastGreen, greens, rx, tx, hist, lane1, turn, calc>>

\* granted: a grant for the own lane was handled in the current permission
\* wait; retryDue: the last wait ended by its time limit and the controller
\* has had no input since; interrupted: a reset was handled inside the green
\* countdown and the controller has had no input since; fresh: an observation
\* was accepted and neither a completed green cycle nor a reset came after it;
\* requests: the green requests published since the last observation was
\* accepted (counted up to 2); lastStatus: the green status published last.
HistInit ==
    [granted |-> FALSE, retryDue |-> FALSE, interrupted |-> FALSE,
     fresh |-> FALSE, requests |-> 0, lastStatus |-> "none"]

IsGrantFor(m, id) ==
    m.topic = "green_permission" /\ m.section = id /\ m.permission = "granted"

IsValidReset(m) ==
    m.topic = "reset" /\ toLowerCase(trim(m.payload)) \in ValidResetCommands

Published(out, topic) == {k \in 1..Len(out) : out[k].topic = topic}

\* ------------------------------------------- one controller, any environment
\* The lane 3 controller against an arbitrary broker: every call of
\* mqtt_client.loop() finds no packet or any one packet of Inputs.

Timestamps == {NoTimestamp, getCurrentTimestamp}

\* Timestamps more than StaleMinutes minutes before the clock: three minutes,
\* a whole day, and two minutes and the seconds of the clock's minute.
StaleTimestamps ==
    {getCurrentTimestamp - 3 * 60,
     Stamp(ClockDay - 1, ClockHour, ClockMinute, ClockSecond),
     Stamp(ClockDay, ClockHour, ClockMinute - StaleMinutes, 0)}

\* Payloads that are unparsable or lack a key of the schema.
MalformedInputs ==
    {UnparsableMsg,
     MissingTotalMsg(LANE_ID, getCurrentTimestamp),
     VehicleCountMsg(LANE_ID, MaxCount, NoTimestamp)}

Inputs ==
    {VehicleCountMsg(l, c, t) : l \in {LANE_ID, 1}, c \in Counts, t \in Timestamps}
    \cup {VehicleCountMsg(LANE_ID, MaxCount, t) : t \in StaleTimestamps}
    \cup MalformedInputs
    \cup {CountsByClassMsg(LANE_ID, <<MaxCount, 0>>, getCurrentTimestamp)}
    \cup {GreenStatusMsg(l, st) : l \in Lanes, st \in {"green", "red"}}
    \cup {GreenRequestMsg(l) : l \in Lanes}
    \cup {GreenPermissionMsg(l, 1) : l \in {LANE_ID, 1}}
    \cup {ResetMsg(p) : p \in ValidResetCommands
                             \cup {<<"f", "a", "l", "s", "e">>,
                                   <<" ", "T", "R", "U", "E", "\n">>}}
    \cup {NextLaneReadyMsg(getNextSection(l), l) : l \in Lanes}
    \cup {NoMsg}

NodeInit ==
    /\ esp = [l \in Lanes |-> EspInit]
    /\ inbox = [l \in Lanes |-> <<>>]
    /\ lost = 0
    /\ resets = 0
    /\ lastGreen = 0
    /\ greens = 0
    /\ rx = NoMsg
    /\ tx = <<>>
    /\ hist = HistInit
    /\ lane1 = Lane1Init
    /\ calc = CalcIdle
    /\ turn = 1

\* The step's effect on the history of the observed controller.
HistAfter(m, pcBefore, r) ==
    [hist EXCEPT
       !.granted = IF pcBefore = "wait"
                   THEN hist.granted \/ IsGrantFor(m, LANE_ID)
                   ELSE FALSE,
       !.retryDue = FALSE,
       !.interrupted = IF pcBefore = "green" /\ IsValidReset(m) THEN TRUE
                       ELSE IF m # NoMsg THEN FALSE
                       ELSE hist.interrupted]

\* The vehicle-count handler takes m for a new observation.
Accepts(s, m, id) == m.topic = "vehicle_count" /\ mqtt_callback(s, m, id).stamped

\* The history after a step that handled m and published out, h being the
\* step's effect on granted, retryDue and interrupted.
Observed(m, out, h) ==
    LET accepted == Accepts(esp[LANE_ID], m, LANE_ID)
        asked == IF Published(out, "green_request") # {} THEN 1 ELSE 0
        status == Published(out, "green_status")
    IN  [h EXCEPT
           !.fresh = IF accepted THEN TRUE
                     ELSE IF IsValidReset(m) \/ esp[LANE_ID].pc = "yellow" THEN FALSE
                     ELSE hist.fresh,
           !.requests = IF accepted \/ IsValidReset(m) THEN asked
                        ELSE IF hist.requests + asked > 2 THEN 2
                        ELSE hist.requests + asked,
           !.lastStatus = IF status = {} THEN hist.lastStatus
                          ELSE out[CHOOSE k \in status : \A j \in status : j <= k].status]

NodeStep(m, r, h) ==
    /\ esp' = [esp EXCEPT ![LANE_ID] = r.esp]
    /\ UNCHANGED <<netVars, peerVars, calc>>
    /\ rx' = m
    /\ tx' = r.out
    /\ hist' = Observed(m, r.out, h)

NodeLoop ==
    /\ esp[LANE_ID].pc = "loop"
    /\ \E m \in Inputs, dataTimeout \in BOOLEAN :
          LET c == mqtt_callback(esp[LANE_ID], m, LANE_ID)
              r == LoopBody(c, LANE_ID, dataTimeout)
              quiet == m = NoMsg /\ ~dataTimeout /\ r.esp.pc = "loop"
          IN  NodeStep(m, r, [HistAfter(m, "loop", r) EXCEPT
                                 !.retryDue = hist.retryDue /\ quiet])

NodeWait ==
    /\ esp[LANE_ID].pc = "wait"
    /\ \E m \in Inputs :
          LET r == WaitBody(mqtt_callback(esp[LANE_ID], m, LANE_ID), LANE_ID)
          IN  NodeStep(m, r, HistAfter(m, "wait", r))

NodeWaitTimeout ==
    /\ esp[LANE_ID].pc = "wait"
    /\ esp[LANE_ID].waitingForGreenPermission
    /\ NodeStep(NoMsg, WaitTimedOut(esp[LANE_ID]),
                [hist EXCEPT !.retryDue = TRUE])

NodeTurnGreen ==
    /\ esp[LANE_ID].pc = "prepare"
    /\ NodeStep(NoMsg, TurnGreen(esp[LANE_ID], LANE_ID), hist)

NodeCountdown ==
    /\ esp[LANE_ID].pc = "green"
    /\ esp[LANE_ID].i > 0
    /\ \E m \in Inputs :
          LET r == CountdownBody(mqtt_callback(esp[LANE_ID], m, LANE_ID))
          IN  NodeStep(m, r, [HistAfter(m, "green", r) EXCEPT
                                 !.granted = hist.granted])

NodeEnterYellow ==
    /\ esp[LANE_ID].pc = "green"
    /\ esp[LANE_ID].i = 0
    /\ NodeStep(NoMsg, EnterYellow(esp[LANE_ID], LANE_ID), hist)

NodeEndCycle ==
    /\ esp[LANE_ID].pc = "yellow"
    /\ NodeStep(NoMsg, EndCycle(esp[LANE_ID], LANE_ID), hist)

NodeNext ==
    \/ NodeLoop
    \/ NodeWait
    \/ NodeWaitTimeout
    \/ NodeTurnGreen
    \/ NodeCountdown
    \/ NodeEnterYellow
    \/ NodeEndCycle

NodeSpec == NodeInit /\ [][NodeNext]_vars

\* The packets of a run in which lane 3 follows lane 2: observations of the
\* own lane, the statuses and the NextLaneReady of lane 2, the controller's
\* own statuses (the broker delivers them to their publisher too), a grant,
\* a reset.
CycleInputs ==
    {VehicleCountMsg(LANE_ID, c, getCurrentTimestamp) : c \in Counts}
    \cup {GreenStatusMsg(l, st) : l \in {2, LANE_ID}, st \in {"green", "red"}}
    \cup {GreenPermissionMsg(LANE_ID, 1)}
    \cup {ResetMsg(p) : p \in ValidResetCommands}
    \cup {NextLaneReadyMsg(LANE_ID, 2)}
    \cup {NoMsg}

CycleLoop == NodeLoop /\ rx' \in CycleInputs

CycleWait == NodeWait /\ rx' \in CycleInputs

CycleCountdown == NodeCountdown /\ rx' \in CycleInputs

CycleNext ==
    \/ CycleLoop
    \/ CycleWait
    \/ NodeWaitTimeout
    \/ NodeTurnGreen
    \/ CycleCountdown
    \/ NodeEnterYellow
    \/ NodeEndCycle

\* The controller keeps running: countdownTimer() counts a second at a time
\* and returns, and loop() goes on to the yellow and red lamps.
FairNodeSpec ==
    /\ NodeInit /\ [][CycleNext]_vars
    /\ WF_vars(CycleCountdown \/ NodeEnterYellow \/ NodeEndCycle)

\* And the permission wait ends after 5000 ms at the latest, and loop() goes
\* on to the lamp sequence once it has decided to.
LiveNodeSpec ==
    /\ FairNodeSpec
    /\ WF_vars(NodeWaitTimeout)
    /\ WF_vars(NodeTurnGreen)

\* ------------------------------ the lane 1 controller, any environment
\* turn follows the round robin as the handlers of esp32_lane3.ino count it
\* from the packets the lane 1 controller has handled: lane 1 after boot or
\* a reset, the announced lane after next_lane_ready, the successor after
\* the red status of the lane believed green.

Lane1Inputs ==
    {VehicleCountMsg(LANE1_ID, c, t) : c \in Counts, t \in Timestamps}
    \cup {GreenStatusMsg(l, st) : l \in Lanes, st \in {"green", "red"}}
    \cup {GreenRequestMsg(l) : l \in Lanes}
    \cup {GreenPermissionMsg(l, LANE_ID) : l \in {LANE1_ID, LANE_ID}}
    \cup {NextLaneReadyMsg(getNextSection(l), l) : l \in Lanes}
    \cup {ResetMsg(<<"r", "e", "s", "e", "t">>), NoMsg}

TurnAfter(m) ==
    CASE m.topic = "next_lane_ready" -> m.next_expected_section
      [] IsValidReset(m) -> 1
      [] m.topic = "green_status" /\ m.status = "red"
         /\ lane1.currentGreenSection = m.section -> getNextSection(m.section)
      [] OTHER -> turn

Lane1Step(m, r) ==
    /\ lane1' = r.esp
    /\ turn' = TurnAfter(m)
    /\ rx' = m
    /\ tx' = r.out
    /\ UNCHANGED <<esp, netVars, hist, calc>>

Lane1Loop ==
    /\ lane1.pc = "loop"
    /\ \E m \in Lane1Inputs :
          Lane1Step(m, Lane1LoopBody(Lane1Callback(lane1, m)))

Lane1Wait ==
    /\ lane1.pc = "wait"
    /\ \E m \in Lane1Inputs :
          Lane1Step(m, Lane1WaitBody(Lane1Callback(lane1, m)))

Lane1WaitTimeout ==
    /\ lane1.pc = "wait"
    /\ lane1.waitingForGreenPermission
    /\ Lane1Step(NoMsg, Lane1WaitTimedOut(lane1))

Lane1Sequence ==
    /\ lane1.pc \in {"off1", "yellow", "off2"} \/ (lane1.pc = "green" /\ lane1.i = 0)
    /\ Lane1Step(NoMsg, Result(Lane1Lamp(lane1), <<>>, FALSE))

Lane1Countdown ==
    /\ lane1.pc = "green"
    /\ lane1.i > 0
    /\ \E m \in Lane1Inputs :
          Lane1Step(m, CountdownBody(Lane1Callback(lane1, m)))

Lane1Red ==
    /\ lane1.pc = "off3"
    /\ Lane1Step(NoMsg, Lane1EndCycle(lane1))

Lane1Next ==
    \/ Lane1Loop
    \/ Lane1Wait
    \/ Lane1WaitTimeout
    \/ Lane1Sequence
    \/ Lane1Countdown
    \/ Lane1Red

Lane1Spec == NodeInit /\ [][Lane1Next]_vars

\* ------------------------------------------------- the duration calculation
\* One run of the calculation on a vehicle count and an hour of the day, by
\* the three implementations of the repository: the membership degrees, the
\* rush-hour flag, the duration for the flag and the duration for either
\* value of the flag.

CalcRead(kendaraan, jam) == [pc |-> "read", kendaraan |-> kendaraan, jam |-> jam]

CalcDone(kendaraan, jam) ==
    [pc |-> "done", kendaraan |-> kendaraan, jam |-> jam,
     lane3 |-> [mu |-> <<sedikit(kendaraan), sedang(kendaraan), padat(kendaraan)>>,
                jamSibuk |-> isJamSibuk(jam),
                duration |-> defuzzify(kendaraan, isJamSibuk(jam)),
                normal |-> defuzzify(kendaraan, FALSE),
                rush |-> defuzzify(kendaraan, TRUE)],
     lane1 |-> [mu |-> <<Lane1_sedikit(kendaraan), Lane1_sedang(kendaraan),
                         Lane1_padat(kendaraan)>>,
                jamSibuk |-> Lane1_isJamSibuk(jam)],
     sim |-> [mu |-> <<Sim_sedikit(kendaraan), Sim_sedang(kendaraan),
                       Sim_padat(kendaraan)>>,
              jamSibuk |-> Sim_isJamSibuk(jam),
              duration |-> Sim_defuzzify(kendaraan, Sim_isJamSibuk(jam)),
              normal |-> Sim_defuzzify(kendaraan, FALSE),
              rush |-> Sim_defuzzify(kendaraan, TRUE)]]

CalcInit ==
    /\ esp = [l \in Lanes |-> EspInit]
    /\ inbox = [l \in Lanes |-> <<>>]
    /\ lost = 0
    /\ resets = 0
    /\ lastGreen = 0
    /\ greens = 0
    /\ rx = NoMsg
    /\ tx = <<>>
    /\ hist = HistInit
    /\ lane1 = Lane1Init
    /\ turn = 1
    /\ calc \in {CalcRead(c, h) : c \in 0..MaxVehicles, h \in 0..23}

\* The calculation runs on the inputs read.
Calculate ==
    /\ calc.pc = "read"
    /\ calc' = CalcDone(calc.kendaraan, calc.jam)
    /\ UNCHANGED <<esp, netVars, obsVars, peerVars>>

\* The next inputs are read.
ReadInputs ==
    /\ calc.pc = "done"
    /\ \E c \in 0..MaxVehicles, h \in 0..23 : calc' = CalcRead(c, h)
    /\ UNCHANGED <<esp, netVars, obsVars, peerVars>>

CalcNext == Calculate \/ ReadInputs

CalcSpec == CalcInit /\ [][CalcNext]_vars

\* ------------------------------------------------ four controllers, one bus
\* The broker delivers every publication of a controller, in publication
\* order, to every subscribed controller, the publisher included.  A call of
\* mqtt_client.loop() of lane l handles the oldest delivered packet, or a
\* fresh observation of the detector for lane l (the detector publishes at
\* any time), or none: packets of no effect (countdown_sync, the vehicle
\* counts and grants of other lanes) are not put in the inboxes, a call
\* spent on one is a call that handles none.  No observation stays pending
\* for the 120000 ms after which loop() drops it (a round of four green
\* phases on empty lanes is shorter).

Receivers(m) ==
    CASE m.topic \in {"green_status", "green_request", "reset", "next_lane_ready"}
            -> Lanes
      [] m.topic = "green_permission" -> {m.section}
      [] OTHER -> {}

RECURSIVE Deliver(_, _)
Deliver(boxes, out) ==
    IF out = <<>> THEN boxes
    ELSE Deliver([l \in Lanes |-> IF l \in Receivers(Head(out))
                                  THEN Append(boxes[l], Head(out))
                                  ELSE boxes[l]],
                 Tail(out))

HasRoom(boxes) == \A l \in Lanes : Len(boxes[l]) <= MaxInbox

\* The counts the detector reports for lane l: vehicles on the lanes up to
\* MaxBusyLane, the other lanes empty.
BusyCounts(l) == IF l <= MaxBusyLane THEN Counts ELSE {0}

\* The detector reports every lane empty.
EmptyCounts(l) == {0}

NetInit ==
    /\ esp = [l \in Lanes |-> EspInit]
    /\ inbox = [l \in Lanes |-> <<>>]
    /\ lost = 0
    /\ resets = 0
    /\ lastGreen = 0
    /\ greens = 0
    /\ rx = NoMsg
    /\ tx = <<>>
    /\ hist = HistInit
    /\ lane1 = Lane1Init
    /\ calc = CalcIdle
    /\ turn = 1

\* A fresh observation of the detector for lane l, with a count of C.
Fresh(l, C) == {VehicleCountMsg(l, c, getCurrentTimestamp) : c \in C}

\* The oldest packet delivered to lane l.
Polled(l) == IF inbox[l] = <<>> THEN {} ELSE {Head(inbox[l])}

\* The packets a call of mqtt_client.loop() of lane l may handle, the
\* detector reporting a count of C.
Pending(l, C) == {NoMsg} \cup Fresh(l, C) \cup Polled(l)

\* Lane l took packet m and ended its step with result r.
NetStep(l, m, r) ==
    LET rest == IF m.topic \in {"none", "vehicle_count"} THEN inbox[l]
                ELSE Tail(inbox[l])
        boxes == Deliver([inbox EXCEPT ![l] = rest], r.out)
    IN  /\ HasRoom(boxes)
        /\ esp' = [esp EXCEPT ![l] = r.esp]
        /\ inbox' = boxes
        /\ UNCHANGED <<lost, resets, obsVars, peerVars, calc>>

Loop(l, M) ==
    /\ esp[l].pc = "loop"
    /\ \E m \in M :
          NetStep(l, m, LoopBody(mqtt_callback(esp[l], m, l), l, FALSE))
    /\ UNCHANGED <<lastGreen, greens>>

Wait(l, M) ==
    /\ esp[l].pc = "wait"
    /\ \E m \in M :
          NetStep(l, m, WaitBody(mqtt_callback(esp[l], m, l), l))
    /\ UNCHANGED <<lastGreen, greens>>

WaitTimeout(l) ==
    /\ esp[l].pc = "wait"
    /\ esp[l].waitingForGreenPermission
    /\ NetStep(l, NoMsg, WaitTimedOut(esp[l]))
    /\ UNCHANGED <<lastGreen, greens>>

Green(l) ==
    /\ esp[l].pc = "prepare"
    /\ NetStep(l, NoMsg, TurnGreen(esp[l], l))
    /\ lastGreen' = l
    /\ greens' = IF greens < MaxGreens THEN greens + 1 ELSE greens

Countdown(l, M) ==
    /\ esp[l].pc = "green"
    /\ esp[l].i > 0
    /\ \E m \in M :
          NetStep(l, m, CountdownBody(mqtt_callback(esp[l], m, l)))
    /\ UNCHANGED <<lastGreen, greens>>

Yellow(l) ==
    /\ esp[l].pc = "green"
    /\ esp[l].i = 0
    /\ NetStep(l, NoMsg, EnterYellow(esp[l], l))
    /\ UNCHANGED <<lastGreen, greens>>

Red(l) ==
    /\ esp[l].pc = "yellow"
    /\ NetStep(l, NoMsg, EndCycle(esp[l], l))
    /\ UNCHANGED <<lastGreen, greens>>

\* The operator publishes a reset command.
OperatorReset ==
    /\ resets < MaxResets
    /\ LET boxes == Deliver(inbox, <<ResetMsg(<<"r", "e", "s", "e", "t">>)>>)
       IN  HasRoom(boxes) /\ inbox' = boxes
    /\ resets' = resets + 1
    /\ UNCHANGED <<esp, lost, lastGreen, greens, obsVars, peerVars, calc>>

\* The bus loses the reset command on its way to lane l.
Lose(l) ==
    /\ lost < MaxLost
    /\ inbox[l] # <<>>
    /\ Head(inbox[l]).topic = "reset"
    /\ inbox' = [inbox EXCEPT ![l] = Tail(inbox[l])]
    /\ lost' = lost + 1
    /\ UNCHANGED <<esp, resets, lastGreen, greens, obsVars, peerVars, calc>>

\* No loss, no reset.
QuietNext ==
    \E l \in Lanes :
        \/ Loop(l, Pending(l, BusyCounts(l)))
        \/ Wait(l, Pending(l, BusyCounts(l)))
        \/ WaitTimeout(l)
        \/ Green(l)
        \/ Countdown(l, Pending(l, BusyCounts(l)))
        \/ Yellow(l)
        \/ Red(l)

QuietSpec == NetInit /\ [][QuietNext]_vars

\* No loss, no reset, every lane reported empty (no lane ever requests, so
\* none waits).
EmptyNext ==
    \E l \in Lanes :
        \/ Loop(l, Pending(l, EmptyCounts(l)))
        \/ Green(l)
        \/ Countdown(l, Pending(l, EmptyCounts(l)))
        \/ Yellow(l)
        \/ Red(l)

\* Scheduling of a lossless run: the detector keeps reporting lane l, the
\* controller keeps polling the broker where its code polls, and it keeps
\* running loop().
Fairness(l) ==
    /\ WF_vars(Loop(l, Fresh(l, EmptyCounts(l))))
    /\ WF_vars(Loop(l, Polled(l)) \/ Countdown(l, Polled(l)))
    /\ WF_vars(Loop(l, {NoMsg}) \/ Green(l) \/ Countdown(l, {NoMsg})
                \/ Yellow(l) \/ Red(l))

\* The broker's queues are no bottleneck: no queue stays full for ever.
QueuesDrain == \A l \in Lanes : []<>(Len(inbox[l]) < MaxInbox)

FairSpec ==
    /\ NetInit /\ [][EmptyNext]_vars
    /\ \A l \in Lanes : Fairness(l)
    /\ QueuesDrain

GreenWithinBound(l) == greens < MaxGreens /\ Green(l)

\* Runs of up to MaxGreens green phases with resets and lost resets, every
\* lane reported empty (no lane ever requests, so none waits).
Next ==
    \/ \E l \in Lanes :
          \/ Loop(l, Pending(l, EmptyCounts(l)))
          \/ GreenWithinBound(l)
          \/ Countdown(l, Pending(l, EmptyCounts(l)))
          \/ Yellow(l)
          \/ Red(l)
          \/ Lose(l)
    \/ OperatorReset

Spec == NetInit /\ [][Next]_vars

\* ------------------------------------------------------------------ claims
\* The claims below are about the observed controller, me.

me == esp[LANE_ID]

\* The state right after the lamp turned green (only that step publishes the
\* green status).
JustTurnedGreen == tx = <<GreenStatusMsg(LANE_ID, "green")>>

\* C1: no two controllers have the green lamp on at the same time.
C1_MutualExclusion ==
    \A a, b \in Lanes :
        a # b => ~(esp[a].light.green /\ esp[b].light.green)

\* C4: the lamp of lane l turns green only if l is lane 1 and no lane was
\* green before, or l follows the lane that turned green last in the order
\* 1, 2, 3, 4, 1.
C4_RoundRobin ==
    [][\A l \in Lanes :
          (esp[l].pc = "prepare" /\ esp'[l].pc = "green")
             => l = IF lastGreen = NumLanes THEN 1 ELSE lastGreen + 1]_vars

\* Lane 1 is green for the second time, after lanes 2, 3 and 4.
C4_Witness ==
    /\ lastGreen = 1
    /\ esp[1].light.green
    /\ greens = MaxGreens
    /\ \A l \in Lanes : esp[l].nextExpectedSection = 1

C2_GreenOnlyAfterGrant ==
    /\ me.light.green => hist.granted
    /\ hist.retryDue => me.light = RedLight /\ me.currentGreenSection # LANE_ID

\* C3: in the state right after the lamp turned green, the own lane is the
\* controller's nextExpectedSection.
C3_TurnAtGreen == JustTurnedGreen => me.nextExpectedSection = LANE_ID

\* C6: after a wait that ended by its time limit the claim is released, the
\* lamp is red, and as long as no packet arrives and the data does not age
\* out the observation stays pending for the next request.
C6_TimeoutRecovery ==
    hist.retryDue =>
        /\ me.currentGreenSection = 0
        /\ ~me.waitingForGreenPermission
        /\ me.light = RedLight
        /\ me.lastReceivedData.new_data

C8_OutOfTurnDenial ==
    /\ (rx.topic = "green_request" /\ rx.section # turn)
          => Published(tx, "green_permission") = {}
    /\ \A r \in Lanes :
          r # me.nextExpectedSection
             => mqtt_callback(me, GreenRequestMsg(r), LANE_ID).out = <<>>

IsResetState(s) ==
    /\ s.currentGreenSection = 0
    /\ s.nextExpectedSection = 1
    /\ ~s.waitingForGreenPermission
    /\ ~s.greenLightRequested
    /\ s.vehicleCount = 0
    /\ ~s.lastReceivedData.new_data
    /\ ~s.lastReceivedData.duration_published
    /\ ~s.lastReceivedData.green_request_sent
    /\ s.lastReceivedData.timestamp = NoTimestamp
    /\ s.light = RedLight

\* C9: in every reachable state a valid reset command leaves the reset
\* state, and the step that handled one ends in it.
C9_Reset ==
    /\ \A p \in ValidResetCommands :
          IsResetState(mqtt_callback(me, ResetMsg(p), LANE_ID).esp)
    /\ IsValidReset(rx) => IsResetState(me)

\* A reset was handled inside the green countdown.
C9_Witness == IsValidReset(rx) /\ me.pc = "green" /\ me.light = RedLight

\* C10: after a reset handled inside the green countdown, and until the
\* next packet, the lamp is red, nobody is believed green, the expected lane
\* is 1 and neither NextLaneReady nor a status is published.
C10_ResetMidGreen ==
    hist.interrupted =>
        /\ me.light = RedLight
        /\ me.currentGreenSection = 0
        /\ me.nextExpectedSection = 1
        /\ Published(tx, "next_lane_ready") = {}
        /\ Published(tx, "green_status") = {}

\* C11: the controllers that believe some lane green all believe the same
\* lane green.
C11_BeliefAgreement ==
    \A a, b \in Lanes :
        (esp[a].currentGreenSection # 0 /\ esp[b].currentGreenSection # 0)
           => esp[a].currentGreenSection = esp[b].currentGreenSection

\* Lane l handles a reset command in this step.
HandlesReset(l) ==
    /\ inbox[l] # <<>>
    /\ Head(inbox[l]).topic = "reset"
    /\ inbox'[l] = Tail(inbox[l])

\* C12: every step of a controller that changes its nextExpectedSection and
\* handles no reset moves it from its value v to getNextSection(v), and the
\* controller believes some lane green before the step.
C12_TurnPointerSteps ==
    [][\A l \in Lanes :
          (esp'[l].nextExpectedSection # esp[l].nextExpectedSection /\ ~HandlesReset(l))
             => /\ esp'[l].nextExpectedSection = getNextSection(esp[l].nextExpectedSection)
                /\ esp[l].currentGreenSection # 0]_vars

\* Every published packet has been handled by every controller it was
\* delivered to, and no controller is inside a green cycle or waits for a
\* grant.
Quiescent ==
    \A l \in Lanes : inbox[l] = <<>> /\ esp[l].pc = "loop"

IsStale(ts) ==
    ts # NoTimestamp /\ getCurrentTimestamp - ts > StaleMinutes * 60

\* C14: in every reachable state, a vehicle count for the own lane with a
\* timestamp more than two minutes before the clock leaves vehicleCount and
\* lastReceivedData (new_data included) unchanged, whatever the count and
\* whatever the day and time of day of the timestamp.
C14_Staleness ==
    \A c \in Counts, ts \in Timestamps \cup StaleTimestamps :
        IsStale(ts) =>
            LET res == mqtt_callback(me, VehicleCountMsg(LANE_ID, c, ts), LANE_ID)
            IN  /\ res.esp.vehicleCount = me.vehicleCount
                /\ res.esp.lastReceivedData = me.lastReceivedData

\* C15: in every reachable state in which the controller holds an accepted
\* observation, handling the same observation (lane, count, timestamp) once
\* more changes nothing, restarts no timer and publishes nothing.
C15_DuplicateSuppression ==
    LET last == me.lastReceivedData
    IN  (last.road_section_id = LANE_ID /\ last.timestamp # NoTimestamp)
           => mqtt_callback(me,
                            VehicleCountMsg(LANE_ID, last.total_vehicles, last.timestamp),
                            LANE_ID)
                 = Result(me, <<>>, FALSE)

\* C16: in every reachable state, a vehicle-count payload for the own lane
\* that is unparsable, has no total_vehicles or has no timestamp changes
\* nothing: the controller's state stays as it was and no timer restarts.
C16_MalformedInput ==
    \A m \in MalformedInputs :
        mqtt_callback(me, m, LANE_ID) = Result(me, <<>>, FALSE)

\* C17: the controller is at the start of a green cycle only while it holds
\* an accepted observation that no completed cycle and no reset has used up.
C17_OneCyclePerObservation == me.pc = "prepare" => hist.fresh

\* The state after the callback and the age check of a loop() pass that
\* handles m, dataTimeout telling whether the pending data has aged out.
BeforeRequest(m, dataTimeout) ==
    LET r == mqtt_callback(me, m, LANE_ID)
    IN  IF dataTimeout /\ ~r.stamped THEN ClearDataFlags(r.esp) ELSE r.esp

\* C18: a loop() pass publishes a green request only if, after its packet
\* was handled, data is pending with vehicleCount > 0, nobody is believed
\* green, the own lane is the expected one and no request was sent for the
\* data; and at most one green request is published per accepted
\* observation.
C18_OneRequestPerObservation ==
    /\ me.pc = "loop" =>
          \A m \in Inputs \cup {NoMsg}, dataTimeout \in BOOLEAN :
              LET s == BeforeRequest(m, dataTimeout)
                  r == LoopBody(mqtt_callback(me, m, LANE_ID), LANE_ID, dataTimeout)
              IN  Published(r.out, "green_request") # {}
                     => /\ s.lastReceivedData.new_data
                        /\ s.vehicleCount > 0
                        /\ s.currentGreenSection = 0
                        /\ s.nextExpectedSection = LANE_ID
                        /\ ~s.lastReceivedData.green_request_sent
    /\ hist.requests <= 1

\* A green status with the given value is among the publications out.
StatusPublished(out, status) ==
    \E k \in Published(out, "green_status") : out[k].status = status

\* C19: a step publishes the green status exactly if it turns the lamp
\* green, and the red status exactly if it takes the lamp from yellow to
\* red; a green status is never published after a green one, a red status
\* only after a green one; and every green status is eventually followed by
\* a red one.
C19_StatusSignalling ==
    /\ [][/\ StatusPublished(tx', "green")
               <=> (~esp[LANE_ID].light.green /\ esp'[LANE_ID].light.green)
          /\ StatusPublished(tx', "red")
               <=> (esp[LANE_ID].light.yellow /\ esp'[LANE_ID].light = RedLight)
          /\ StatusPublished(tx', "green") => hist.lastStatus # "green"
          /\ StatusPublished(tx', "red") => hist.lastStatus = "green"]_vars
    /\ (hist.lastStatus = "green") ~> (hist.lastStatus = "red")

\* The red status was published at the end of a green cycle in which a reset
\* was handled during the countdown.
C19_Witness ==
    /\ tx = <<GreenStatusMsg(LANE_ID, "red")>>
    /\ hist.lastStatus = "red"
    /\ hist.interrupted
    /\ me.light = RedLight

\* C20: the step that publishes NextLaneReady is the step that takes the
\* lamp from yellow to red, and the controller moves its own
\* nextExpectedSection to the lane after its own only in that step: after a
\* step that did either, the lamp is red.
C20_HandOverPoint ==
    /\ Published(tx, "next_lane_ready") # {} => me.light = RedLight
    /\ [][(/\ rx' = NoMsg
           /\ esp'[LANE_ID].nextExpectedSection # esp[LANE_ID].nextExpectedSection)
             => (esp[LANE_ID].light.yellow /\ esp'[LANE_ID].light = RedLight)]_vars

\* C22: a calculation on a vehicle count of 0 finds the three membership
\* degrees zero and gives the fallback duration of the hour's flag: 20 s
\* outside the rush hours, 30 s inside.
C22_ZeroCountFallback ==
    (calc.pc = "done" /\ calc.kendaraan = 0)
       => /\ calc.lane3.mu = <<0, 0, 0>>
          /\ calc.lane3.duration = IF calc.lane3.jamSibuk THEN 300 ELSE 200

\* C23: every calculation gives a strictly longer duration with the rush
\* hour flag than without it, in the lane controller and in the simulator.
C23_RushHourLengthens ==
    calc.pc = "done"
       => /\ calc.lane3.rush > calc.lane3.normal
          /\ calc.sim.rush > calc.sim.normal

\* A calculation on 8 vehicles: a blend of the medium and the long duration.
C23_Witness ==
    /\ calc.pc = "done"
    /\ calc.kendaraan = 8
    /\ calc.lane3.mu = <<0, 4, 6>>
    /\ calc.lane3.rush = 480
    /\ calc.lane3.normal = 320

\* C24: every calculation of the lane controller gives, for either flag, a
\* duration that is not negative and lies between the short and the long
\* base duration of the flag (10 s and 40 s, in the rush hour 15 s and
\* 60 s), so that the countdown has at least one second.
C24_DurationBounds ==
    calc.pc = "done"
       => /\ calc.lane3.normal >= 0 /\ calc.lane3.rush >= 0
          /\ 100 <= calc.lane3.normal /\ calc.lane3.normal <= 400
          /\ 150 <= calc.lane3.rush /\ calc.lane3.rush <= 600
          /\ calc.lane3.duration =
                IF calc.lane3.jamSibuk THEN calc.lane3.rush ELSE calc.lane3.normal
          /\ IntCast(calc.lane3.duration) >= 1

\* A calculation in the rush hour on a count beyond the last breakpoint: the
\* long duration of the rush hour.
C24_Witness ==
    /\ calc.pc = "done"
    /\ calc.kendaraan = MaxVehicles
    /\ calc.lane3.jamSibuk
    /\ calc.lane3.duration = 600

\* The degrees mu, in units of 1/one: each within [0, 1], summing to 1, the
\* first and the last never both above 0.
IsPartition(mu, one) ==
    /\ \A k \in 1..3 : 0 <= mu[k] /\ mu[k] <= one
    /\ mu[1] + mu[2] + mu[3] = one
    /\ ~(mu[1] > 0 /\ mu[3] > 0)

\* C25: in every calculation the three membership degrees of the lane 3
\* controller, of the lane 1 controller and of the simulator each lie in
\* [0, 1] and sum to 1, with at most two adjacent categories above 0.
C25_MembershipPartition ==
    calc.pc = "done"
       => /\ IsPartition(calc.lane3.mu, 10)
          /\ IsPartition(calc.lane1.mu, 10)
          /\ IsPartition(calc.sim.mu, 20)

\* A calculation on 40 vehicles: dense for the controllers, half medium and
\* half dense for the simulator.
C25_Witness ==
    /\ calc.pc = "done"
    /\ calc.kendaraan = 40
    /\ calc.lane1.mu = <<0, 0, 10>>
    /\ calc.sim.mu = <<0, 10, 10>>

\* C26: in every calculation the lane 1 controller, the lane 3 controller
\* and the simulator give the same rush-hour flag for the hour, and the flag
\* is set exactly in the hours 7..9 and 17..19.
C26_RushHourConsistency ==
    calc.pc = "done"
       => /\ calc.lane1.jamSibuk = calc.lane3.jamSibuk
          /\ calc.sim.jamSibuk = calc.lane3.jamSibuk
          /\ calc.lane3.jamSibuk <=> calc.jam \in (7..9) \cup (17..19)

\* The controller is idle: in loop(), the lamp red, not waiting for a grant
\* and holding no claim for its own lane.
Idle ==
    /\ me.pc = "loop"
    /\ me.light = RedLight
    /\ ~me.waitingForGreenPermission
    /\ me.currentGreenSection # LANE_ID

\* C21: whatever packets arrive or fail to arrive, the controller is idle
\* again and again.
C21_NoTrap == []<>Idle

\* The coordination state of a controller.
Coordination(s) ==
    [currentGreenSection |-> s.currentGreenSection,
     nextExpectedSection |-> s.nextExpectedSection,
     waitingForGreenPermission |-> s.waitingForGreenPermission,
     new_data |-> s.lastReceivedData.new_data,
     duration_published |-> s.lastReceivedData.duration_published,
     green_request_sent |-> s.lastReceivedData.green_request_sent,
     light |-> s.light]

\* The coordination messages the bus may deliver.
CoordinationInputs ==
    {m \in Inputs : m.topic \in {"green_request", "green_permission",
                                 "green_status", "next_lane_ready", "reset"}}

\* C27: in every reachable state and for every coordination message, the
\* callback applied to the message twice in a row leaves the coordination
\* state that it leaves when applied once.
C27_IdempotentRedelivery ==
    \A m \in CoordinationInputs :
        LET once == mqtt_callback(me, m, LANE_ID).esp
            twice == mqtt_callback(once, m, LANE_ID).esp
        IN  Coordination(twice) = Coordination(once)

\* The red status of the lane believed green was just handled, and handling
\* it again changes nothing.
C27_Witness ==
    /\ rx = GreenStatusMsg(2, "red")
    /\ me.currentGreenSection = 0
    /\ me.nextExpectedSection = 3
    /\ hist.lastStatus = "red"
    /\ mqtt_callback(me, rx, LANE_ID).esp = me

\* C28: in every reachable state of loop() with data pending, a pass of
\* loop() that handles no packet and finds the data older than 120000 ms
\* ends in the state a reset leaves.
C28_StalenessTimeoutResets ==
    (me.pc = "loop" /\ me.lastReceivedData.new_data)
       => IsResetState(LoopBody(mqtt_callback(me, NoMsg, LANE_ID), LANE_ID, TRUE).esp)

\* C29: the step that publishes the green request leaves the claim on the
\* own lane, and no step of the permission wait and no second of the green
\* countdown that follows a grant publishes a grant to any lane.
C29_NoGrantWhileClaiming ==
    /\ Published(tx, "green_request") # {} => me.currentGreenSection = LANE_ID
    /\ [][(\/ esp[LANE_ID].pc = "wait"
           \/ esp[LANE_ID].pc = "green" /\ hist.granted)
             => Published(tx', "green_permission") = {}]_vars

\* The wait iteration of the observed controller that handles m.
WaitOn(m) == WaitBody(mqtt_callback(me, m, LANE_ID), LANE_ID)

\* C30: in every state of the permission wait, one grant for the own lane,
\* from whichever peer, ends the wait, and if the claim on the own lane
\* still stands the controller goes on to the yellow preparation; a grant
\* for another lane changes nothing and the wait goes on; and a controller
\* that left the wait for the preparation after a grant turns its lamp green
\* and publishes the green status.
C30_GrantPath ==
    /\ [](me.pc = "wait" /\ me.waitingForGreenPermission
            => \A f \in Lanes \ {LANE_ID} :
                  /\ ~WaitOn(GreenPermissionMsg(LANE_ID, f)).esp.waitingForGreenPermission
                  /\ me.currentGreenSection = LANE_ID
                        => WaitOn(GreenPermissionMsg(LANE_ID, f)).esp.pc = "prepare"
                  /\ \A l \in Lanes \ {LANE_ID} :
                        WaitOn(GreenPermissionMsg(l, f)) = Result(me, <<>>, FALSE))
    /\ (me.pc = "prepare" /\ hist.granted)
          ~> (me.light.green /\ JustTurnedGreen /\ hist.granted)

\* The lamp turned green after a wait in which a grant was handled.
C30_Witness ==
    /\ hist.granted
    /\ JustTurnedGreen
    /\ me.light.green
    /\ me.vehicleCount = MaxCount
    /\ me.currentGreenSection = LANE_ID

\* C31: in every state of the permission wait in which the controller
\* believes another lane green, a grant for the own lane ends the wait with
\* the lamp as it was, nothing published, the belief and the pending
\* observation kept; and the lamp is never green after a step that left the
\* wait for loop().
C31_LostClaim ==
    /\ (/\ me.pc = "wait"
        /\ me.waitingForGreenPermission
        /\ me.currentGreenSection \notin {0, LANE_ID})
          => \A f \in Lanes \ {LANE_ID} :
                LET r == WaitOn(GreenPermissionMsg(LANE_ID, f))
                IN  /\ r.esp.pc = "loop"
                    /\ r.esp.light = me.light /\ ~r.esp.light.green
                    /\ r.out = <<>>
                    /\ r.esp.currentGreenSection = me.currentGreenSection
                    /\ r.esp.lastReceivedData = me.lastReceivedData
    /\ (me.pc = "loop" /\ hist.granted) => me.light = RedLight

\* A grant ended a wait in which the green status of lane 2 had been
\* handled: back in loop(), lamp red, data pending.
C31_Witness ==
    /\ me.pc = "loop"
    /\ hist.granted
    /\ IsGrantFor(rx, LANE_ID)
    /\ me.currentGreenSection = 2
    /\ me.lastReceivedData.new_data
    /\ me.light = RedLight
    /\ tx = <<>>

\* C32: in every state of either controller, handling the red status of
\* lane s changes the state only if currentGreenSection = s, and then the
\* new state is the old one with currentGreenSection 0 and
\* nextExpectedSection getNextSection(s).
C32_RedStatus ==
    \A s \in Lanes :
       LET m == GreenStatusMsg(s, "red")
           after(old, new) ==
              IF old.currentGreenSection = s
              THEN /\ "nextExpectedSection" \in DOMAIN new
                   /\ new = [old EXCEPT
                               !.currentGreenSection = 0,
                               !.nextExpectedSection = getNextSection(s)]
              ELSE new = old
       IN  /\ after(me, mqtt_callback(me, m, LANE_ID).esp)
           /\ mqtt_callback(me, m, LANE_ID).out = <<>>
           /\ after(lane1, Lane1Callback(lane1, m).esp)
           /\ Lane1Callback(lane1, m).out = <<>>

\* C33: while the controller believes another lane g green, every step that
\* handles no red status of g, no green status of a lane other than g and no
\* reset command keeps currentGreenSection = g, publishes no green request
\* and no grant, and does not switch the own green lamp on.
C33_PerpetualGreenBelief ==
    [][(/\ me.currentGreenSection \notin {0, LANE_ID}
        /\ ~(rx'.topic = "green_status" /\ rx'.status = "red"
             /\ rx'.section = me.currentGreenSection)
        /\ ~(rx'.topic = "green_status" /\ rx'.status = "green"
             /\ rx'.section # me.currentGreenSection)
        /\ ~IsValidReset(rx'))
          => /\ me'.currentGreenSection = me.currentGreenSection
             /\ Published(tx', "green_request") = {}
             /\ Published(tx', "green_permission") = {}
             /\ (me'.light.green => me.light.green)]_vars

\* C34: in every state, a reset-topic message reinitialises the controller
\* if its payload, trimmed and lower-cased, is "true", "1" or "reset"
\* (padding and upper case included), and every other payload leaves the
\* whole state, lamp included, unchanged; nothing is published either way.
C34_ResetTrigger ==
    LET Triggers == {<<"t", "r", "u", "e">>, <<"1">>,
                     <<"r", "e", "s", "e", "t">>,
                     <<" ", "T", "R", "U", "E", "\n">>,
                     <<"R", "e", "s", "e", "t">>,
                     <<"\t", "1", " ">>}
        Others == {<<"f", "a", "l", "s", "e">>, <<>>, <<" ">>, <<"0">>,
                   <<"r", "e", " ", "s", "e", "t">>,
                   <<"t", "r", "u", "e", "1">>,
                   <<"y", "e", "s">>}
    IN  /\ \A p \in Triggers :
              /\ toLowerCase(trim(p)) \in ValidResetCommands
              /\ LET r == mqtt_callback(me, ResetMsg(p), LANE_ID)
                 IN  IsResetState(r.esp) /\ r.out = <<>> /\ ~r.stamped
        /\ \A p \in Others :
              /\ toLowerCase(trim(p)) \notin ValidResetCommands
              /\ mqtt_callback(me, ResetMsg(p), LANE_ID)
                   = Result(me, <<>>, FALSE)

\* The payload "false" was handled inside the countdown: lamp still green,
\* claim still held.
C34_Witness ==
    /\ rx = ResetMsg(<<"f", "a", "l", "s", "e">>)
    /\ me.pc = "green"
    /\ me.light = GreenLight
    /\ me.currentGreenSection = LANE_ID
    /\ me.i > 0

\* C35: a controller that has published a green request publishes no grant
\* for its own lane in the step in which it handles a green request naming
\* its own lane, in loop(), in the permission wait or in the countdown; for
\* the lane 1 controller and for the lane 3 controller.
C35_NoSelfGrant ==
    [][/\ (/\ lane1.greenLightRequested
           /\ rx' = GreenRequestMsg(LANE1_ID))
             => \A k \in Published(tx', "green_permission") :
                   tx'[k].section # LANE1_ID
       /\ (/\ hist.requests > 0
           /\ rx' = GreenRequestMsg(LANE_ID))
             => \A k \in Published(tx', "green_permission") :
                   tx'[k].section # LANE_ID]_vars

\* C36: in every reachable state of the lane 3 controller, whatever packets
\* it handled inside the countdown, a lit green lamp implies
\* currentGreenSection = ROAD_SECTION_ID.
C36_GreenLampHoldsClaim ==
    me.light.green => me.currentGreenSection = LANE_ID

\* C37: in every step of the lane 3 controller the green lamp is switched on
\* only from yellow and switched off only into yellow, a reset command
\* handled during the cycle included.
C37_LampOrder ==
    [][/\ (~me.light.green /\ me'.light.green) => me.light = YellowLight
       /\ (me.light.green /\ ~me'.light.green) => me'.light = YellowLight]_vars

\* C38: in every reachable state of the lane 3 controller, from the state
\* after setup() onwards, exactly one of light.red, light.yellow and
\* light.green is true.
C38_OneLampLit ==
    Cardinality({lamp \in {"red", "yellow", "green"} : me.light[lamp]}) = 1

\* The yellow phase after a countdown: yellow alone is lit.
C38_Witness ==
    /\ me.pc = "yellow"
    /\ me.light.yellow
    /\ ~me.light.red
    /\ ~me.light.green
    /\ hist.lastStatus = "green"

\* C39: for either value of the rush-hour flag and every two vehicle counts
\* c1 <= c2, the duration computed for c1 is at most the duration computed
\* for c2, by the controller's defuzzify and by the simulator's.
C39_MonotoneDuration ==
    calc.pc = "done" =>
       \A c1 \in 0..calc.kendaraan :
          /\ defuzzify(c1, FALSE) <= calc.lane3.normal
          /\ defuzzify(c1, TRUE) <= calc.lane3.rush
          /\ Sim_defuzzify(c1, FALSE) <= calc.sim.normal
          /\ Sim_defuzzify(c1, TRUE) <= calc.sim.rush

\* A calculation for 20 vehicles, strictly longer than the one for 4
\* vehicles under both flags and in both implementations.
C39_Witness ==
    /\ calc.pc = "done"
    /\ calc.kendaraan = 20
    /\ defuzzify(4, FALSE) < calc.lane3.normal
    /\ defuzzify(4, TRUE) < calc.lane3.rush
    /\ Sim_defuzzify(4, FALSE) < calc.sim.normal
    /\ Sim_defuzzify(4, TRUE) < calc.sim.rush

====
